---- MODULE Spec2Model ----
(***************************************************************************)
(* A model of GlintLanguageServer (packages/core language-server): the     *)
(* orchestration layer that drives every editor operation through          *)
(* "translate position -> query the Analyzer -> translate the result back".*)
(* The document cache, the transform manager and the position utilities    *)
(* are collaborators of the class; they are modelled at their interface.   *)
(***************************************************************************)
EXTENDS Integers, Sequences, FiniteSets, TLC

VARIABLES
  disk,           \* the paths that exist on disk (ts.sys.fileExists)
  documents,      \* DocumentCache: path -> [open, version, stale, contents]
  openFileNames,  \* GlintLanguageServer.openFileNames
  rootFileNames,  \* GlintLanguageServer.rootFileNames
  allowJs,        \* compilerOptions.allowJs of the parsed tsconfig
  ev,             \* the document event handled last (observation)
  resp,           \* the request handled last and its response (observation)
  synthesisReads  \* the synthetic files whose text or mapping the last step read

vars == <<disk, documents, openFileNames, rootFileNames, allowJs, ev, resp, synthesisReads>>

----------------------------------------------------------------------------
(* Bounds of the model *)

MaxVersion == 2     \* documents are edited until their version reaches this
MaxSpans == 2       \* longest list the Analyzer answers with
MaxDiags == 2       \* longest diagnostics list a quick-fix request carries

None == [none |-> TRUE]

----------------------------------------------------------------------------
(* Paths, URIs and the environment *)

Path(d, b, e) == [dir |-> d, base |-> b, ext |-> e]

rootDir == "/proj"

ScriptA   == Path("/proj", "a", "ts")    \* script half of the pair
TemplateA == Path("/proj", "a", "hbs")   \* markup half of the pair
TemplateB == Path("/proj", "b", "hbs")   \* markup with no companion
ScriptJ   == Path("/proj", "j", "js")    \* untyped script
NotesN    == Path("/proj", "n", "txt")   \* free text
OutsideO  == Path("/tmp", "o", "ts")     \* a script outside rootDir

Paths == {ScriptA, TemplateA, TemplateB, ScriptJ, NotesN, OutsideO}

filePathToUri(p) == [scheme |-> "file", fsPath |-> p]
uriToFilePath(u) == u.fsPath

isTemplate(p) == p.ext = "hbs"
isTypedScript(p) == p.ext = "ts"
isUntypedScript(p) == p.ext = "js"
isScript(p) == isTypedScript(p) \/ isUntypedScript(p)

getSynthesizedScriptPathForTS(p) ==
  IF isTemplate(p) \/ isTypedScript(p) THEN [p EXCEPT !.ext = "ts"]
  ELSE IF isUntypedScript(p) THEN [p EXCEPT !.ext = "js"]
  ELSE p

startsWithRootDir(p) == p.dir = rootDir

----------------------------------------------------------------------------
(* Texts: a text is the sequence of its lines (what split('\n') gives),     *)
(* a line is a sequence of characters.                                      *)

Chars == {" ", "\t", "|", "x"}

RECURSIVE SeqsUpTo(_, _)
SeqsUpTo(S, n) ==
  IF n = 0 THEN {<<>>}
  ELSE LET shorter == SeqsUpTo(S, n - 1)
       IN  shorter \cup {Append(s, x) : s \in {t \in shorter : Len(t) = n - 1}, x \in S}

RECURSIVE TextLen(_)
TextLen(text) ==
  IF text = <<>> THEN 0
  ELSE IF Len(text) = 1 THEN Len(text[1])
  ELSE Len(text[1]) + 1 + TextLen(Tail(text))

\* util/position: the line holding the offset and the column in it
RECURSIVE offsetToPositionFrom(_, _, _)
offsetToPositionFrom(text, offset, line) ==
  IF Len(text) > 1 /\ Len(text[1]) + 1 <= offset
  THEN offsetToPositionFrom(Tail(text), offset - (Len(text[1]) + 1), line + 1)
  ELSE [line |-> line, character |-> offset]

offsetToPosition(text, offset) ==
  IF text = <<>> THEN [line |-> 0, character |-> offset]
  ELSE offsetToPositionFrom(text, offset, 0)

RECURSIVE lineStart(_, _)
lineStart(text, line) ==
  IF line = 0 \/ text = <<>> THEN 0
  ELSE Len(text[1]) + 1 + lineStart(Tail(text), line - 1)

positionToOffset(text, pos) == lineStart(text, pos.line) + pos.character

\* what is on disk for a file that no editor holds
DiskText == << <<"x">>, <<"x">> >>

----------------------------------------------------------------------------
(* DocumentCache *)

NoDocument == [open |-> FALSE, version |-> 0, stale |-> FALSE, contents |-> DiskText]

documentExists(p) == documents[p].open \/ p \in disk

getCompanionDocumentPath(p) ==
  LET candidates ==
        IF isTemplate(p) THEN << [p EXCEPT !.ext = "ts"], [p EXCEPT !.ext = "js"] >>
        ELSE IF isScript(p) THEN << [p EXCEPT !.ext = "hbs"] >>
        ELSE <<>>
      found == {i \in 1..Len(candidates) :
                  candidates[i] \in Paths /\ documentExists(candidates[i])}
  IN  IF found = {} THEN None
      ELSE candidates[CHOOSE i \in found : \A j \in found : i <= j]

getCanonicalDocumentPath(p) ==
  IF isTemplate(p) /\ getCompanionDocumentPath(p) # None
  THEN getCompanionDocumentPath(p)
  ELSE p

getDocumentVersion(p) == documents[p].version
getDocumentContents(p) == IF p \in Paths THEN documents[p].contents ELSE <<>>

updateDocument(docs, p, contents) ==
  [docs EXCEPT ![p] = [open |-> TRUE, version |-> @.version + 1,
                       stale |-> FALSE, contents |-> contents]]

removeDocument(docs, p) == [docs EXCEPT ![p] = NoDocument]

markDocumentStale(docs, p) == [docs EXCEPT ![p].stale = TRUE]

----------------------------------------------------------------------------
(* TransformManager: the script path a file is analysed under *)

getScriptPathForTS(p) == getSynthesizedScriptPathForTS(getCanonicalDocumentPath(p))

----------------------------------------------------------------------------
(* TransformManager: the mapping between a module's synthetic text and its *)
(* original files.  The synthetic text of a script+markup pair is the      *)
(* script's text, one character of glue that exists only in the synthetic  *)
(* text, and the text generated for the template: its first line is free   *)
(* text, the line break holds nothing but the embedding itself, and the    *)
(* rest is an expression.                                                   *)

Min(a, b) == IF a <= b THEN a ELSE b

templateOf(s) == [s EXCEPT !.ext = "hbs"]

hasTransform(s) ==
  /\ isTypedScript(s) /\ s \in Paths /\ templateOf(s) \in Paths
  /\ documentExists(s) /\ documentExists(templateOf(s))

Segment(tag, ts, te, file, os, oe) ==
  [tag |-> tag, tStart |-> ts, tEnd |-> te, file |-> file, oStart |-> os, oEnd |-> oe]

MappingTable(s) ==
  LET template == getDocumentContents(templateOf(s))
      Ls == TextLen(getDocumentContents(s))
      Lh == TextLen(template)
      T0 == Ls + 1
      k  == IF template = <<>> THEN 0 ELSE Len(template[1])
      g  == Min(k + 1, Lh)
  IN  << Segment("ScriptContent", 0, Ls, s, 0, Ls),
         Segment("SyntheticUsage", Ls, T0, templateOf(s), 0, 0),
         Segment("TextContent", T0, T0 + k, templateOf(s), 0, k),
         Segment("TemplateEmbedding", T0 + k, T0 + g, templateOf(s), k, g),
         Segment("Identifier", T0 + g, T0 + Lh, templateOf(s), g, Lh) >>

TableLen(tbl) == tbl[Len(tbl)].tEnd

SyntheticLen(s) == TableLen(MappingTable(s))
TemplateStart(s) == MappingTable(s)[3].tStart

\* the segment owning an offset: at a boundary the later segment is preferred
ownersIn(tbl, t) ==
  {i \in 1..Len(tbl) :
     /\ tbl[i].tStart <= t
     /\ tbl[i].tStart < tbl[i].tEnd
     /\ (t < tbl[i].tEnd \/ (tbl[i].tEnd = TableLen(tbl) /\ t >= tbl[i].tEnd))}

lastOf(S) == CHOOSE i \in S : \A j \in S : j <= i

ownerIn(tbl, t) ==
  IF ownersIn(tbl, t) = {} THEN tbl[1] ELSE tbl[lastOf(ownersIn(tbl, t))]

owner(s, t) == ownerIn(MappingTable(s), t)

mappingOf(seg) ==
  IF seg.tag = "ScriptContent" THEN None ELSE [sourceNode |-> [type |-> seg.tag]]

translateIn(seg, t) == Min(seg.oStart + (t - seg.tStart), seg.oEnd)

\* a range inside one segment translates within it; a range over several
\* segments of the template is the embedding's; any other is clipped to the
\* segment that owns its start
rangeInSegment(tbl, seg, transformedStart, transformedEnd) ==
  IF transformedEnd <= seg.tEnd
  THEN [originalFileName |-> seg.file,
        originalStart |-> translateIn(seg, transformedStart),
        originalEnd |-> translateIn(seg, transformedEnd),
        mapping |-> mappingOf(seg)]
  ELSE IF /\ seg.tag \in {"TextContent", "TemplateEmbedding", "Identifier"}
          /\ transformedEnd <= TableLen(tbl)
  THEN [originalFileName |-> seg.file,
        originalStart |-> transformedStart - tbl[3].tStart,
        originalEnd |-> transformedEnd - tbl[3].tStart,
        mapping |-> [sourceNode |-> [type |-> "TemplateEmbedding"]]]
  ELSE [originalFileName |-> seg.file,
        originalStart |-> translateIn(seg, transformedStart),
        originalEnd |-> seg.oEnd,
        mapping |-> mappingOf(seg)]

rangeInTable(tbl, transformedStart, transformedEnd) ==
  rangeInSegment(tbl, ownerIn(tbl, transformedStart), transformedStart, transformedEnd)

getOriginalRange(transformedFileName, transformedStart, transformedEnd) ==
  IF ~hasTransform(transformedFileName)
  THEN [originalFileName |-> getCanonicalDocumentPath(transformedFileName),
        originalStart |-> transformedStart,
        originalEnd |-> transformedEnd,
        mapping |-> None]
  ELSE rangeInTable(MappingTable(transformedFileName), transformedStart, transformedEnd)

transformManagerGetTransformedOffset(originalFileName, originalOffset) ==
  LET s == getScriptPathForTS(originalFileName) IN
  IF originalFileName \in Paths /\ hasTransform(s)
  THEN [transformedFileName |-> s,
        transformedOffset |->
          IF isTemplate(originalFileName)
          THEN TemplateStart(s) + Min(originalOffset, TextLen(getDocumentContents(originalFileName)))
          ELSE Min(originalOffset, TextLen(getDocumentContents(originalFileName)))]
  ELSE [transformedFileName |-> originalFileName, transformedOffset |-> originalOffset]

----------------------------------------------------------------------------
(* GlintLanguageServer: private helpers *)

synthesizedOffset(t) ==
  [transformedOffset |-> t.transformedOffset,
   transformedFileName |-> getSynthesizedScriptPathForTS(t.transformedFileName)]

getTransformedOffset(originalURI, originalPosition) ==
  synthesizedOffset(
    transformManagerGetTransformedOffset(
      uriToFilePath(originalURI),
      positionToOffset(getDocumentContents(uriToFilePath(originalURI)), originalPosition)))

isAnalyzableFile(synthesizedScriptPath) ==
  \/ synthesizedScriptPath.ext = "ts"
  \/ (allowJs /\ synthesizedScriptPath.ext = "js")

findDiagnosticsSource(fileName) ==
  LET scriptPath == getScriptPathForTS(fileName)
  IN  IF isAnalyzableFile(scriptPath) THEN scriptPath ELSE None

Range(contents, start, end) ==
  [start |-> offsetToPosition(contents, start), end |-> offsetToPosition(contents, end)]

\* locationOf dropping every zero-length original range, whatever the length
\* of the synthetic span
locationOfAnyZeroLength(o, textSpan) ==
  IF o.originalStart = o.originalEnd
  THEN None
  ELSE [uri |-> filePathToUri(o.originalFileName),
        range |-> Range(getDocumentContents(o.originalFileName),
                        o.originalStart, o.originalEnd)]

\* o: the span translated back by getOriginalRange
locationOf(o, textSpan) ==
  IF o.originalStart = o.originalEnd /\ textSpan.length > 0
  THEN None
  ELSE [uri |-> filePathToUri(o.originalFileName),
        range |-> Range(getDocumentContents(o.originalFileName),
                        o.originalStart, o.originalEnd)]

textSpanToLocation(fileName, textSpan) ==
  locationOf(getOriginalRange(fileName, textSpan.start, textSpan.start + textSpan.length),
             textSpan)

\* .filter(Boolean) over one mapped span
RECURSIVE calculateOriginalLocations(_)
keepLocation(loc, rest) == IF loc = None THEN rest ELSE <<loc>> \o rest

calculateOriginalLocations(spans) ==
  IF spans = <<>> THEN <<>>
  ELSE keepLocation(textSpanToLocation(spans[1].fileName, spans[1].textSpan),
                    calculateOriginalLocations(Tail(spans)))

----------------------------------------------------------------------------
(* The file names the Analyzer's host reports *)

allKnownFileNames == {name \in rootFileNames \cup openFileNames : isScript(name)}

\* serviceHost.getScriptFileNames
getScriptFileNames == allKnownFileNames

----------------------------------------------------------------------------
(* Document events *)

NoEvent == [op |-> "none"]
NoResp == [op |-> "none"]

Event(op, p) ==
  [op |-> op, path |-> p,
   companion |-> getCompanionDocumentPath(p),
   wasRoot |-> getSynthesizedScriptPathForTS(p) \in rootFileNames]

openFile(uri, contents) ==
  LET path == uriToFilePath(uri) IN
  /\ documents[path].version < MaxVersion
  /\ documents' = updateDocument(documents, path, contents)
  /\ openFileNames' = openFileNames \cup {getScriptPathForTS(path)}
  /\ ev' = Event("openFile", path)
  /\ resp' = NoResp
  /\ synthesisReads' = {}
  /\ UNCHANGED <<disk, rootFileNames, allowJs>>

\* updateFile regenerating the module's synthetic text at once
updateFileEager(uri, contents) ==
  LET path == uriToFilePath(uri) IN
  /\ documents[path].version < MaxVersion
  /\ documents' = updateDocument(documents, path, contents)
  /\ ev' = Event("updateFile", path)
  /\ resp' = NoResp
  /\ synthesisReads' = {getScriptPathForTS(path)}
  /\ UNCHANGED <<disk, openFileNames, rootFileNames, allowJs>>

updateFile(uri, contents) ==
  LET path == uriToFilePath(uri) IN
  /\ documents[path].version < MaxVersion
  /\ documents' = updateDocument(documents, path, contents)
  /\ ev' = Event("updateFile", path)
  /\ resp' = NoResp
  /\ synthesisReads' = {}
  /\ UNCHANGED <<disk, openFileNames, rootFileNames, allowJs>>

closeFile(uri) ==
  LET path == uriToFilePath(uri) IN
  /\ documents' = removeDocument(documents, path)
  /\ openFileNames' = openFileNames \ {getScriptPathForTS(path)}
  /\ ev' = Event("closeFile", path)
  /\ resp' = NoResp
  /\ synthesisReads' = {}
  /\ UNCHANGED <<disk, rootFileNames, allowJs>>

watchedFileWasAdded(uri) ==
  LET filePath == uriToFilePath(uri) IN
  /\ filePath \notin disk
  /\ disk' = disk \cup {filePath}
  /\ rootFileNames' =
       IF startsWithRootDir(filePath)
       THEN rootFileNames \cup {getScriptPathForTS(filePath)}
       ELSE rootFileNames
  /\ ev' = Event("watchedFileWasAdded", filePath)
  /\ resp' = NoResp
  /\ synthesisReads' = {}
  /\ UNCHANGED <<documents, openFileNames, allowJs>>

watchedFileDidChange(uri) ==
  LET path == uriToFilePath(uri) IN
  /\ path \in disk
  /\ documents' = markDocumentStale(documents, path)
  /\ ev' = Event("watchedFileDidChange", path)
  /\ resp' = NoResp
  /\ synthesisReads' = {}
  /\ UNCHANGED <<disk, openFileNames, rootFileNames, allowJs>>

watchedFileWasRemovedRoots(path, companionPath) ==
  IF companionPath = None \/ getSynthesizedScriptPathForTS(companionPath) # path
  THEN rootFileNames \ {getSynthesizedScriptPathForTS(path)}
  ELSE rootFileNames

watchedFileWasRemoved(uri) ==
  LET path == uriToFilePath(uri) IN
  /\ path \in disk
  /\ disk' = disk \ {path}
  /\ documents' = markDocumentStale(documents, path)
  /\ rootFileNames' = watchedFileWasRemovedRoots(path, getCompanionDocumentPath(path))
  /\ ev' = Event("watchedFileWasRemoved", path)
  /\ resp' = NoResp
  /\ synthesisReads' = {}
  /\ UNCHANGED <<openFileNames, allowJs>>

\* serviceHost.getScriptSnapshot: the Analyzer reads the text of a file
getScriptSnapshot(fileName) ==
  /\ synthesisReads' = {fileName}
  /\ ev' = NoEvent
  /\ UNCHANGED <<disk, documents, openFileNames, rootFileNames, allowJs, resp>>

----------------------------------------------------------------------------
(* Requests.  The Analyzer (ts.LanguageService) is outside the class: its  *)
(* answer to a query is an input of the request, and every query method    *)
(* the request invokes is recorded in resp.queries.                        *)

Undefined == [undefined |-> TRUE]

\* a list that stands where undefined may stand
List(items) == [list |-> items]

Query(method, fileName, args) == [method |-> method, fileName |-> fileName, args |-> args]

\* a request is accepted once the response to the one before it has been sent
\* the synthetic files a request reads: the one its position is translated
\* into (getTransformedOffset), or the one its diagnostics are collected from
requestReads(r) ==
  IF r.op = "getDiagnostics" /\ r.queries = <<>> THEN {}
  ELSE IF r.op = "getCodeActions" /\ r.actionKind # "quickfix" THEN {}
  ELSE {r.fileName}

Respond(r) ==
  /\ resp = NoResp
  /\ resp' = r
  /\ ev' = NoEvent
  /\ synthesisReads' = requestReads(r)
  /\ UNCHANGED <<disk, documents, openFileNames, rootFileNames, allowJs>>

sendResponse ==
  /\ resp # NoResp
  /\ resp' = NoResp
  /\ synthesisReads' = {}
  /\ UNCHANGED <<disk, documents, openFileNames, rootFileNames, allowJs, ev>>

\* keepOwnDiagnostics without the comparison of the diagnostic's file with the
\* requested file: the companion's diagnostics are merged into the response
RECURSIVE keepOwnDiagnosticsMerged(_, _)
keepOwnDiagnosticsMerged(rewritten, filePath) ==
  IF rewritten = <<>> THEN <<>>
  ELSE LET diagnostic == rewritten[1]
           rest == keepOwnDiagnosticsMerged(Tail(rewritten), filePath)
       IN  IF diagnostic.file = None
           THEN rest
           ELSE << [source |-> "glint",
                    code |-> diagnostic.code,
                    range |-> Range(getDocumentContents(diagnostic.file),
                                    diagnostic.start, diagnostic.start + diagnostic.length)] >>
                \o rest

RECURSIVE keepOwnDiagnostics(_, _)
keepOwnDiagnostics(rewritten, filePath) ==
  IF rewritten = <<>> THEN <<>>
  ELSE LET diagnostic == rewritten[1]
           rest == keepOwnDiagnostics(Tail(rewritten), filePath)
       IN  IF diagnostic.file = None \/ diagnostic.file # filePath
           THEN rest
           ELSE << [source |-> "glint",
                    code |-> diagnostic.code,
                    range |-> Range(getDocumentContents(diagnostic.file),
                                    diagnostic.start, diagnostic.start + diagnostic.length)] >>
                \o rest

\* rewritten: what transformManager.rewriteDiagnostics makes of the Analyzer's
\* and the transform's diagnostics for sourcePath
getDiagnostics(uri, rewritten) ==
  LET filePath == uriToFilePath(uri)
      sourcePath == findDiagnosticsSource(filePath)
  IN  Respond(
        IF sourcePath = None
        THEN [op |-> "getDiagnostics", uri |-> uri,
              fileName |-> getScriptPathForTS(filePath),
              queries |-> <<>>, rewritten |-> <<>>, result |-> <<>>]
        ELSE [op |-> "getDiagnostics", uri |-> uri,
              fileName |-> sourcePath,
              queries |-> << Query("getSyntacticDiagnostics", sourcePath, None),
                             Query("getSemanticDiagnostics", sourcePath, None),
                             Query("getSuggestionDiagnostics", sourcePath, None) >>,
              rewritten |-> rewritten,
              result |-> keepOwnDiagnostics(rewritten, filePath)])

\* completions: undefined, or the Analyzer's answer with its entries
\* getCompletionsMapped with the TemplateEmbedding test left out
getCompletionsTextContentOnly(uri, t, mapping, completions) ==
  LET transformedFileName == t.transformedFileName
      transformedOffset == t.transformedOffset
      base == [op |-> "getCompletions", uri |-> uri, fileName |-> transformedFileName,
               offset |-> transformedOffset]
  IN  Respond(
        IF ~isAnalyzableFile(transformedFileName)
        THEN base @@ [queries |-> <<>>, answer |-> Undefined, result |-> Undefined]
        ELSE IF \/ (mapping # None /\ mapping.sourceNode.type = "TextContent")
                \/ (mapping = None /\ isTemplate(uriToFilePath(uri)))
        THEN base @@ [queries |-> <<>>, answer |-> Undefined, result |-> Undefined]
        ELSE base @@
             [answer |-> completions,
              queries |-> << Query("getCompletionsAtPosition", transformedFileName,
                                   [offset |-> transformedOffset]) >>,
              result |->
                IF completions = Undefined THEN Undefined
                ELSE List([i \in 1..Len(completions.entries) |->
                        [label |-> completions.entries[i].name,
                         data |-> [uri |-> uri,
                                   transformedFileName |-> transformedFileName,
                                   transformedOffset |-> transformedOffset,
                                   source |-> completions.entries[i].source]]])])

getCompletionsMapped(uri, t, mapping, completions) ==
  LET transformedFileName == t.transformedFileName
      transformedOffset == t.transformedOffset
      base == [op |-> "getCompletions", uri |-> uri, fileName |-> transformedFileName,
               offset |-> transformedOffset]
  IN  Respond(
        IF ~isAnalyzableFile(transformedFileName)
        THEN base @@ [queries |-> <<>>, answer |-> Undefined, result |-> Undefined]
        ELSE IF \/ (mapping # None /\ mapping.sourceNode.type = "TextContent")
                \/ (mapping # None /\ mapping.sourceNode.type = "TemplateEmbedding")
                \/ (mapping = None /\ isTemplate(uriToFilePath(uri)))
        THEN base @@ [queries |-> <<>>, answer |-> Undefined, result |-> Undefined]
        ELSE base @@
             [answer |-> completions,
              queries |-> << Query("getCompletionsAtPosition", transformedFileName,
                                   [offset |-> transformedOffset]) >>,
              result |->
                IF completions = Undefined THEN Undefined
                ELSE List([i \in 1..Len(completions.entries) |->
                        [label |-> completions.entries[i].name,
                         data |-> [uri |-> uri,
                                   transformedFileName |-> transformedFileName,
                                   transformedOffset |-> transformedOffset,
                                   source |-> completions.entries[i].source]]])])

getCompletionsAt(uri, t, completions) ==
  getCompletionsMapped(uri, t,
    getOriginalRange(t.transformedFileName, t.transformedOffset, t.transformedOffset).mapping,
    completions)

getCompletions(uri, position, completions) ==
  getCompletionsAt(uri, getTransformedOffset(uri, position), completions)

renameRange(uri, o) ==
  Range(getDocumentContents(uriToFilePath(uri)), o.originalStart, o.originalEnd)

\* rename: the Analyzer's getRenameInfo answer
prepareRenameAt(uri, t, rename) ==
  LET base == [op |-> "prepareRename", uri |-> uri, fileName |-> t.transformedFileName]
  IN  Respond(
        IF ~isAnalyzableFile(t.transformedFileName)
        THEN base @@ [queries |-> <<>>, result |-> Undefined]
        ELSE base @@
             [queries |-> << Query("getRenameInfo", t.transformedFileName,
                                   [offset |-> t.transformedOffset]) >>,
              result |->
                IF rename.canRename
                THEN renameRange(uri,
                       getOriginalRange(t.transformedFileName,
                                        rename.triggerSpan.start,
                                        rename.triggerSpan.start + rename.triggerSpan.length))
                ELSE Undefined])

prepareRename(uri, position, rename) ==
  prepareRenameAt(uri, getTransformedOffset(uri, position), rename)

\* pushRenameEdit without the skip of zero-length results
pushRenameEditUnfiltered(changes, o, newText) ==
  LET originalFileURI == filePathToUri(o.originalFileName)
      changesForFile == IF originalFileURI \in DOMAIN changes
                        THEN changes[originalFileURI] ELSE <<>>
      edit == [newText |-> newText,
               range |-> Range(getDocumentContents(o.originalFileName),
                               o.originalStart, o.originalEnd)]
  IN  [u \in DOMAIN changes \cup {originalFileURI} |->
         IF u = originalFileURI THEN Append(changesForFile, edit) ELSE changes[u]]

\* one turn of the loop over renameLocations: o is the location translated back
pushRenameEdit(changes, o, newText) ==
  LET originalFileURI == filePathToUri(o.originalFileName)
      changesForFile == IF originalFileURI \in DOMAIN changes
                        THEN changes[originalFileURI] ELSE <<>>
      edit == [newText |-> newText,
               range |-> Range(getDocumentContents(o.originalFileName),
                               o.originalStart, o.originalEnd)]
  IN  IF o.originalStart = o.originalEnd
      THEN changes
      ELSE [u \in DOMAIN changes \cup {originalFileURI} |->
              IF u = originalFileURI THEN Append(changesForFile, edit) ELSE changes[u]]

spanToOriginalRange(span) ==
  getOriginalRange(span.fileName, span.textSpan.start,
                   span.textSpan.start + span.textSpan.length)

RECURSIVE renameChanges(_, _, _)
renameChanges(renameLocations, newText, changes) ==
  IF renameLocations = <<>> THEN changes
  ELSE renameChanges(Tail(renameLocations), newText,
         pushRenameEdit(changes, spanToOriginalRange(renameLocations[1]), newText))

NoChanges == [u \in {} |-> <<>>]

\* a WorkspaceEdit: the fields it carries and, when present, its changes
EmptyWorkspaceEdit == [fields |-> {}]

\* renameLocations: undefined, or the locations the Analyzer answers with
getEditsForRenameAt(uri, t, newText, renameLocations) ==
  LET base == [op |-> "getEditsForRename", uri |-> uri, fileName |-> t.transformedFileName,
               newText |-> newText]
      query == << Query("findRenameLocations", t.transformedFileName,
                        [offset |-> t.transformedOffset]) >>
  IN  Respond(
        IF ~isAnalyzableFile(t.transformedFileName)
        THEN base @@ [queries |-> <<>>, answer |-> Undefined, result |-> EmptyWorkspaceEdit]
        ELSE IF renameLocations = Undefined \/ renameLocations.list = <<>>
        THEN base @@ [queries |-> query, answer |-> renameLocations,
                      result |-> EmptyWorkspaceEdit]
        ELSE base @@
             [queries |-> query, answer |-> renameLocations,
              result |-> [fields |-> {"changes"},
                          changes |-> renameChanges(renameLocations.list, newText, NoChanges)]])

getEditsForRename(uri, position, newText, renameLocations) ==
  getEditsForRenameAt(uri, getTransformedOffset(uri, position), newText, renameLocations)

hoverOf(o) ==
  [contents |-> "ts",
   range |-> Range(getDocumentContents(o.originalFileName), o.originalStart, o.originalEnd)]

\* info: undefined, or the Analyzer's quick info with its text span
getHoverAt(uri, t, info) ==
  LET base == [op |-> "getHover", uri |-> uri, fileName |-> t.transformedFileName]
  IN  Respond(
        IF ~isAnalyzableFile(t.transformedFileName)
        THEN base @@ [queries |-> <<>>, result |-> Undefined]
        ELSE base @@
             [queries |-> << Query("getQuickInfoAtPosition", t.transformedFileName,
                                   [offset |-> t.transformedOffset]) >>,
              result |->
                IF info = Undefined THEN Undefined
                ELSE hoverOf(getOriginalRange(t.transformedFileName, info.textSpan.start,
                                              info.textSpan.start + info.textSpan.length))])

getHover(uri, position, info) ==
  getHoverAt(uri, getTransformedOffset(uri, position), info)

\* definitions: the spans the Analyzer answers with (undefined reads as none)
getDefinitionAt(uri, t, definitions) ==
  LET base == [op |-> "getDefinition", uri |-> uri, fileName |-> t.transformedFileName]
  IN  Respond(
        IF ~isAnalyzableFile(t.transformedFileName)
        THEN base @@ [queries |-> <<>>, answer |-> <<>>, result |-> <<>>]
        ELSE base @@
             [answer |-> definitions,
              queries |-> << Query("getDefinitionAtPosition", t.transformedFileName,
                                   [offset |-> t.transformedOffset]) >>,
              result |-> calculateOriginalLocations(definitions)])

getDefinition(uri, position, definitions) ==
  getDefinitionAt(uri, getTransformedOffset(uri, position), definitions)

getReferencesAt(uri, t, references) ==
  LET base == [op |-> "getReferences", uri |-> uri, fileName |-> t.transformedFileName]
  IN  Respond(
        IF ~isAnalyzableFile(t.transformedFileName)
        THEN base @@ [queries |-> <<>>, answer |-> <<>>, result |-> <<>>]
        ELSE base @@
             [answer |-> references,
              queries |-> << Query("getReferencesAtPosition", t.transformedFileName,
                                   [offset |-> t.transformedOffset]) >>,
              result |-> calculateOriginalLocations(references)])

getReferences(uri, position, references) ==
  getReferencesAt(uri, getTransformedOffset(uri, position), references)

----------------------------------------------------------------------------
(* Quick fixes.  A JavaScript string is a sequence of characters; a text   *)
(* with line breaks is the sequence of its lines.                          *)

Number(n) == [kind |-> "number", n |-> n]
String(s) == [kind |-> "string", s |-> s]
NaN == [kind |-> "NaN"]

Digits == {"2", "7"}
DigitValue(c) == IF c = "2" THEN 2 ELSE 7

\* parseInt: the number its leading digits spell, NaN when it has none
RECURSIVE parseDigits(_, _, _)
parseDigits(s, acc, seen) ==
  IF s = <<>> \/ Head(s) \notin Digits
  THEN IF seen THEN Number(acc) ELSE NaN
  ELSE parseDigits(Tail(s), acc * 10 + DigitValue(Head(s)), TRUE)

parseInt(s) == parseDigits(s, 0, FALSE)

startsWith(s, prefix) ==
  Len(s) >= Len(prefix) /\ SubSeq(s, 1, Len(prefix)) = prefix

Glint == <<"g", "l", "i", "n", "t">>

truthy(v) ==
  /\ v # Undefined
  /\ (v.kind = "number" => v.n # 0)
  /\ (v.kind = "string" => v.s # <<>>)

onlyNumbers(entry) == entry # Undefined

diagnosticCode(diag) ==
  IF truthy(diag.code) /\ diag.source # Undefined /\ startsWith(diag.source.s, Glint)
  THEN IF diag.code.kind = "string" THEN parseInt(diag.code.s) ELSE diag.code
  ELSE Undefined

RECURSIVE filterDiagnosticCodes(_)
filterDiagnosticCodes(diagnostics) ==
  IF diagnostics = <<>> THEN <<>>
  ELSE LET entry == diagnosticCode(diagnostics[1])
           rest == filterDiagnosticCodes(Tail(diagnostics))
       IN  IF onlyNumbers(entry) THEN <<entry>> \o rest ELSE rest

GlintIgnore == <<"{{! @glint-ignore }}">>

RECURSIVE leadingRun(_, _)
leadingRun(line, class) ==
  IF line = <<>> \/ Head(line) \notin class THEN <<>>
  ELSE <<Head(line)>> \o leadingRun(Tail(line), class)

\* /^[ \t]*$/
isBlankLine(line) == \A i \in 1..Len(line) : line[i] \in {" ", "\t"}

\* /^[ |\t]+/.exec(contents)?.[0] ?? ''
indentOf(contents) == leadingRun(contents, {" ", "|", "\t"})

insertGlintIgnore(filePath, edit, start) ==
  LET linesOfNewText == <<GlintIgnore, <<>> >>
      lines == getDocumentContents(filePath)
      last == linesOfNewText[Len(linesOfNewText)]
      indent == IF start.line + 1 \in DOMAIN lines
                THEN indentOf(lines[start.line + 1])
                ELSE <<>>
  IN  [range |-> [start |-> start, end |-> start],
       newText |-> IF isBlankLine(last)
                   THEN [linesOfNewText EXCEPT ![Len(linesOfNewText)] = indent]
                   ELSE linesOfNewText]

isFixForTS(filePath, fixName) == isTemplate(filePath) /\ fixName # "disableJsDiagnostics"

\* textEditOf inserting the Analyzer's own suppression text
textEditOfVerbatim(fix, edit, filePath, o, start, end) ==
  IF /\ fix.fixName = "disableJsDiagnostics"
     /\ (isTemplate(o.originalFileName) \/ o.mapping # None)
  THEN [range |-> [start |-> start, end |-> start], newText |-> edit.newText]
  ELSE [range |-> [start |-> start, end |-> end], newText |-> edit.newText]

\* o: the edit's span translated back by getOriginalRange
textEditOf(fix, edit, filePath, o, start, end) ==
  IF /\ fix.fixName = "disableJsDiagnostics"
     /\ (isTemplate(o.originalFileName) \/ o.mapping # None)
  THEN insertGlintIgnore(filePath, edit, start)
  ELSE [range |-> [start |-> start, end |-> end], newText |-> edit.newText]

textEditAt(fix, edit, filePath, o) ==
  textEditOf(fix, edit, filePath, o,
             offsetToPosition(getDocumentContents(o.originalFileName), o.originalStart),
             offsetToPosition(getDocumentContents(o.originalFileName), o.originalEnd))

textChangeToEdit(fix, change, edit, filePath) ==
  textEditAt(fix, edit, filePath,
             getOriginalRange(change.fileName, edit.span.start,
                              edit.span.start + edit.span.length))

uriForEdit(fix, uri) ==
  LET filePath == uriToFilePath(uri)
      companion == getCompanionDocumentPath(filePath)
  IN  IF companion # None /\ isFixForTS(filePath, fix.fixName)
      THEN filePathToUri(companion)
      ELSE uri

changeToDocumentEdit(fix, change, uri) ==
  LET filePath == uriToFilePath(uri)
      version == getDocumentVersion(filePath)
  IN  [textDocument |-> [uri |-> uriForEdit(fix, uri), version |-> version],
       edits |-> [j \in 1..Len(change.textChanges) |->
                    textChangeToEdit(fix, change, change.textChanges[j], filePath)]]

transformCodeFixActionToCodeAction(codeFixes, uri) ==
  [i \in 1..Len(codeFixes) |->
     [title |-> codeFixes[i].description,
      kind |-> "quickfix",
      edit |-> [documentChanges |->
                  [c \in 1..Len(codeFixes[i].changes) |->
                     changeToDocumentEdit(codeFixes[i], codeFixes[i].changes[c], uri)]]]]

transformedOffsets(start, end) ==
  [transformedStart |-> start.transformedOffset,
   transformedEnd |-> end.transformedOffset,
   transformedFileName |-> start.transformedFileName]

getTransformedOffsetsFromPositions(uri, startPosition, endPosition) ==
  transformedOffsets(getTransformedOffset(uri, startPosition),
                     getTransformedOffset(uri, endPosition))

\* keepsAction without the test of the edits' number
keepsActionAlways(codeAction) ==
  \A c \in 1..Len(codeAction.edit.documentChanges) :
     Len(codeAction.edit.documentChanges[c].edits) >= 0

keepsAction(codeAction) ==
  \A c \in 1..Len(codeAction.edit.documentChanges) :
     Len(codeAction.edit.documentChanges[c].edits) > 0

RECURSIVE filterActions(_)
filterActions(codeActions) ==
  IF codeActions = <<>> THEN <<>>
  ELSE IF keepsAction(codeActions[1])
       THEN <<codeActions[1]>> \o filterActions(Tail(codeActions))
       ELSE filterActions(Tail(codeActions))

\* codeFixes: the fixes the Analyzer answers getCodeFixesAtPosition with
applyCodeAction(uri, actionKind, diagnosticCodes, codeFixes, errorCodes, t, codeActions) ==
  LET base == [op |-> "getCodeActions", uri |-> uri, fileName |-> t.transformedFileName,
               actionKind |-> actionKind, diagnostics |-> diagnosticCodes]
  IN  Respond(
        IF actionKind = "quickfix"
        THEN base @@
             [queries |-> << Query("getCodeFixesAtPosition", t.transformedFileName,
                                   [start |-> t.transformedStart,
                                    end |-> t.transformedEnd,
                                    errorCodes |-> errorCodes]) >>,
              answer |-> codeFixes,
              actions |-> codeActions,
              result |-> filterActions(codeActions)]
        ELSE base @@ [queries |-> <<>>, answer |-> <<>>, actions |-> <<>>, result |-> <<>>])

getCodeActions(uri, actionKind, range, diagnosticCodes, codeFixes) ==
  applyCodeAction(uri, actionKind, diagnosticCodes, codeFixes,
                  filterDiagnosticCodes(diagnosticCodes),
                  getTransformedOffsetsFromPositions(uri, range.start, range.end),
                  transformCodeFixActionToCodeAction(codeFixes, uri))

----------------------------------------------------------------------------
(* The file-event specification: the files of the pair, and a script      *)
(* outside rootDir, come and go on disk and in the editor.                 *)

WatchPaths == {ScriptA, TemplateA, OutsideO}
EditPaths == {ScriptA, TemplateA}

InitWatch ==
  /\ disk \in SUBSET WatchPaths
  /\ documents = [p \in Paths |-> NoDocument]
  /\ openFileNames = {}
  /\ rootFileNames = {getSynthesizedScriptPathForTS(p) :
                        p \in {q \in disk : startsWithRootDir(q)}}
  /\ allowJs = FALSE
  /\ ev = NoEvent
  /\ resp = NoResp
  /\ synthesisReads = {}

NextWatch ==
  \/ \E p \in EditPaths : openFile(filePathToUri(p), DiskText)
  \/ \E p \in EditPaths : documents[p].open /\ updateFile(filePathToUri(p), DiskText)
  \/ \E p \in EditPaths : documents[p].open /\ closeFile(filePathToUri(p))
  \/ \E p \in WatchPaths : watchedFileWasAdded(filePathToUri(p))
  \/ \E p \in WatchPaths : watchedFileDidChange(filePathToUri(p))
  \/ \E p \in WatchPaths : watchedFileWasRemoved(filePathToUri(p))

SpecWatch == InitWatch /\ [][NextWatch]_vars

----------------------------------------------------------------------------
(* The laziness specification: the files of SpecWatch come and go while    *)
(* the Analyzer reads the files it was told of and hovers are requested.    *)

NextLazy ==
  \/ NextWatch
  \/ \E f \in getScriptFileNames : getScriptSnapshot(f)
  \/ sendResponse
  \/ resp = NoResp /\ \E p \in EditPaths :
       getHover(filePathToUri(p), [line |-> 0, character |-> 0], Undefined)

SpecLazy == InitWatch /\ [][NextLazy]_vars

----------------------------------------------------------------------------
(* The request specification: the pair is open in the editor, the other    *)
(* files are on disk; the markup half is edited and every public           *)
(* operation is requested, the Analyzer answering as it may.               *)

ReqPaths == {ScriptA, TemplateA, TemplateB, ScriptJ, NotesN}

Positions ==
  {[line |-> 0, character |-> 0], [line |-> 0, character |-> 1], [line |-> 1, character |-> 0]}

SegmentStarts(s) == {MappingTable(s)[i].tStart : i \in 1..Len(MappingTable(s))}

TextSpans(s, maxLen) ==
  {[start |-> st, length |-> l] : st \in SegmentStarts(s), l \in 0..maxLen}

\* the spans the Analyzer may name: one character at the start of every
\* segment of the pair's synthetic file, the empty span where the template
\* starts, and a span in another module
AnalyzerSpans ==
  {[fileName |-> ScriptA, textSpan |-> [start |-> st, length |-> 1]] :
     st \in {x \in SegmentStarts(ScriptA) : x + 1 <= SyntheticLen(ScriptA)}}
  \cup {[fileName |-> ScriptA, textSpan |-> [start |-> TemplateStart(ScriptA), length |-> 0]]}
  \cup {[fileName |-> ScriptJ, textSpan |-> [start |-> 0, length |-> 1]]}

HoverSpans ==
  {sp \in TextSpans(ScriptA, 2) : sp.start + sp.length <= SyntheticLen(ScriptA)}

RewrittenDiagnostics ==
  [code : {2304, 2322}, file : {ScriptA, TemplateA, None}, start : 0..1, length : {1}]

CompletionAnswers ==
  {Undefined, [entries |-> <<>>],
   [entries |-> << [name |-> "foo", source |-> Undefined] >>]}

TsIgnore == << <<"// @ts-ignore">>, <<>> >>

SimpleFix ==
  [fixName |-> "fixSpelling", description |-> "Change spelling",
   changes |-> << [fileName |-> ScriptA,
                   textChanges |-> << [span |-> [start |-> 0, length |-> 1],
                                       newText |-> << <<"x">> >>] >>] >>]

InitQuery ==
  /\ disk = Paths
  /\ documents = [p \in Paths |->
                    IF p \in EditPaths
                    THEN [open |-> TRUE, version |-> 1, stale |-> FALSE, contents |-> DiskText]
                    ELSE NoDocument]
  /\ openFileNames = {ScriptA}
  /\ rootFileNames = {getSynthesizedScriptPathForTS(p) :
                        p \in {q \in Paths : startsWithRootDir(q)}}
  /\ allowJs \in BOOLEAN
  /\ ev = NoEvent
  /\ resp = NoResp
  /\ synthesisReads = {}

NextQuery ==
  \/ updateFile(filePathToUri(TemplateA), DiskText)
  \/ sendResponse
  \/ resp = NoResp /\ \E p \in ReqPaths, d \in SeqsUpTo(RewrittenDiagnostics, MaxSpans) :
       getDiagnostics(filePathToUri(p), d)
  \/ resp = NoResp /\ \E p \in ReqPaths, pos \in Positions, c \in CompletionAnswers :
       getCompletions(filePathToUri(p), pos, c)
  \/ resp = NoResp /\ \E p \in ReqPaths, pos \in Positions,
        info \in {Undefined} \cup {[textSpan |-> sp] : sp \in HoverSpans} :
       getHover(filePathToUri(p), pos, info)
  \/ resp = NoResp /\ \E p \in ReqPaths, pos \in Positions, spans \in SeqsUpTo(AnalyzerSpans, MaxSpans) :
       getDefinition(filePathToUri(p), pos, spans)
  \/ resp = NoResp /\ \E p \in ReqPaths, pos \in Positions, spans \in SeqsUpTo(AnalyzerSpans, MaxSpans) :
       getReferences(filePathToUri(p), pos, spans)
  \/ resp = NoResp /\ \E p \in ReqPaths, pos \in Positions,
        rename \in {[canRename |-> FALSE]}
                   \cup {[canRename |-> TRUE, triggerSpan |-> sp] : sp \in HoverSpans} :
       prepareRename(filePathToUri(p), pos, rename)
  \/ resp = NoResp /\ \E p \in ReqPaths, pos \in Positions,
        locs \in {Undefined} \cup {List(l) : l \in SeqsUpTo(AnalyzerSpans, MaxSpans)} :
       getEditsForRename(filePathToUri(p), pos, "B", locs)
  \/ resp = NoResp /\ \E p \in ReqPaths, pos \in Positions, kind \in {"quickfix", "refactor"},
        fixes \in {<<>>, <<SimpleFix>>} :
       getCodeActions(filePathToUri(p), kind, [start |-> pos, end |-> pos], <<>>, fixes)

SpecQuery == InitQuery /\ [][NextQuery]_vars

----------------------------------------------------------------------------
(* The error-code specification: quick fixes are requested for the script  *)
(* of the pair with every short list of diagnostics.                        *)

EsLint == <<"e", "s", "l", "i", "n", "t">>
GlintTs == Glint \o <<":", "t", "s">>

DiagnosticInputs ==
  [code : {Undefined, Number(2), Number(7), String(<<"7">>), String(<<"2", "7">>),
           String(<<"x">>)},
   source : {Undefined, String(Glint), String(GlintTs), String(EsLint)}]

OriginRange == [start |-> [line |-> 0, character |-> 0], end |-> [line |-> 0, character |-> 0]]

NextCodes ==
  \/ sendResponse
  \/ resp = NoResp /\ \E diags \in SeqsUpTo(DiagnosticInputs, MaxDiags) :
       getCodeActions(filePathToUri(ScriptA), "quickfix", OriginRange, diags, <<>>)

SpecCodes == InitQuery /\ [][NextCodes]_vars

----------------------------------------------------------------------------
(* The quick-fix specification: the halves of the pair are edited, their   *)
(* second line taking every indentation, and quick fixes are requested,    *)
(* the Analyzer answering with fixes of either kind over the segments of   *)
(* the synthetic file.                                                      *)

IndentedLines ==
  {<<>>, <<"x">>, <<" ", "x">>, <<"\t", "x">>, <<"|", "x">>, <<" ", "|">>}

\* the markup half takes every indentation, the script half one
EditTexts(p) ==
  IF isTemplate(p) THEN {<< <<"x">>, l >> : l \in IndentedLines}
  ELSE {<< <<"x">>, <<"\t", "x">> >>}

FixNames == {"disableJsDiagnostics", "fixSpelling"}

FixNewText(fixName) == IF fixName = "disableJsDiagnostics" THEN TsIgnore ELSE << <<"x">> >>

FixSpans ==
  {[start |-> st, length |-> 1] :
     st \in {x \in SegmentStarts(ScriptA) : x + 1 <= SyntheticLen(ScriptA)}}
  \cup {[start |-> MappingTable(ScriptA)[5].tStart, length |-> 0]}

TextChanges(fixName) == {[span |-> sp, newText |-> FixNewText(fixName)] : sp \in FixSpans}

OtherChange(fixName) ==
  [fileName |-> ScriptJ,
   textChanges |-> << [span |-> [start |-> 0, length |-> 1], newText |-> FixNewText(fixName)] >>]

FileChanges(fixName) ==
  {<< [fileName |-> ScriptA, textChanges |-> tc] >> :
     tc \in SeqsUpTo(TextChanges(fixName), MaxSpans)}
  \cup {<< [fileName |-> ScriptA, textChanges |-> tc], OtherChange(fixName) >> :
          tc \in SeqsUpTo(TextChanges(fixName), 1)}

Fixes ==
  UNION {{[fixName |-> n, description |-> n, changes |-> ch] : ch \in FileChanges(n)} :
           n \in FixNames}

FixAnswers ==
  {<<>>} \cup {<<f>> : f \in Fixes}
         \cup {<<f, SimpleFix>> : f \in {g \in Fixes : Len(g.changes[1].textChanges) = 0}}

InitFix == InitQuery /\ allowJs = FALSE

NextFix ==
  \/ \E p \in EditPaths : \E text \in EditTexts(p) : updateFile(filePathToUri(p), text)
  \/ sendResponse
  \/ resp = NoResp /\ \E p \in {ScriptA, TemplateA, TemplateB}, kind \in {"quickfix", "refactor"},
                         fixes \in FixAnswers :
       getCodeActions(filePathToUri(p), kind, OriginRange, <<>>, fixes)

SpecFix == InitFix /\ [][NextFix]_vars

----------------------------------------------------------------------------
(* C1: removing one half of a pair keeps the module registered *)

\* C1: whenever watchedFileWasRemoved(p) has just been handled for a file p
\* whose companion still existed and whose synthesized script path was in
\* rootFileNames, that path is still in rootFileNames.
C1_RegistrationKeptWhileCompanionExists ==
  (ev.op = "watchedFileWasRemoved" /\ ev.companion # None /\ ev.wasRoot)
    => getSynthesizedScriptPathForTS(ev.path) \in rootFileNames

----------------------------------------------------------------------------
(* Helpers of the properties *)

\* the j-th smallest element of a set of indices
Nth(S, j) == CHOOSE i \in S : Cardinality({k \in S : k < i}) = j - 1

Analyzable(r) == isAnalyzableFile(r.fileName)

\* an Analyzer span whose original range is empty though the span is not
SyntheticOnly(span) ==
  /\ spanToOriginalRange(span).originalStart = spanToOriginalRange(span).originalEnd
  /\ span.textSpan.length >= 1

EmptyOriginal(span) ==
  spanToOriginalRange(span).originalStart = spanToOriginalRange(span).originalEnd

OriginalUri(span) == filePathToUri(spanToOriginalRange(span).originalFileName)

----------------------------------------------------------------------------
(* C2: no operation queries the Analyzer for a file that is not analyzable *)

ListOps == {"getDiagnostics", "getDefinition", "getReferences", "getCodeActions"}
OptionOps == {"getCompletions", "getHover", "prepareRename"}

EmptyResult(r) ==
  IF r.op \in ListOps THEN r.result = <<>>
  ELSE IF r.op \in OptionOps THEN r.result = Undefined
  ELSE r.result = EmptyWorkspaceEdit

\* C2: after any public operation on a file whose synthesized script path is
\* neither '.ts' nor '.js' with allowJs, the response is the operation's
\* empty/undefined result and no Analyzer query method was invoked.
C2_NotAnalyzableNeverQueries ==
  (resp # NoResp /\ ~Analyzable(resp)) => (resp.queries = <<>> /\ EmptyResult(resp))

----------------------------------------------------------------------------
(* C3: diagnostics are surfaced against the file they map back to *)

OwnDiagnostics(r) ==
  {i \in 1..Len(r.rewritten) : r.rewritten[i].file = uriToFilePath(r.uri)}

\* C3: getDiagnostics(f) answers with exactly the rewritten diagnostics whose
\* translated file is f, in their order: a diagnostic of the companion, or
\* one with no file, is not in the response.
C3_DiagnosticsOfRequestedFileOnly ==
  (resp.op = "getDiagnostics" /\ Analyzable(resp)) =>
    /\ Len(resp.result) = Cardinality(OwnDiagnostics(resp))
    /\ \A j \in 1..Len(resp.result) :
         LET d == resp.rewritten[Nth(OwnDiagnostics(resp), j)] IN
           /\ resp.result[j].code = d.code
           /\ resp.result[j].range.start =
                offsetToPosition(getDocumentContents(uriToFilePath(resp.uri)), d.start)

\* a request for the script half whose rewritten diagnostics hold one of the
\* markup half and one of its own
C3_Witness ==
  /\ resp.op = "getDiagnostics"
  /\ resp.uri = filePathToUri(ScriptA)
  /\ Len(resp.rewritten) = 2
  /\ resp.rewritten[1].file = TemplateA
  /\ resp.rewritten[2].file = ScriptA
  /\ Len(resp.result) = 1

----------------------------------------------------------------------------
(* C4: free text offers no completions *)

NoOwningSegment(r) ==
  ~hasTransform(r.fileName) \/ owner(r.fileName, r.offset).tag = "ScriptContent"

FreeText(r) ==
  \/ /\ ~NoOwningSegment(r)
     /\ owner(r.fileName, r.offset).tag \in {"TextContent", "TemplateEmbedding"}
  \/ /\ NoOwningSegment(r)
     /\ isTemplate(uriToFilePath(r.uri))

\* C4: getCompletions answers undefined without querying the Analyzer when the
\* segment owning the translated offset is TextContent or TemplateEmbedding,
\* or when no segment owns it and the requested file is a template; in every
\* other analyzable case it queries the Analyzer once, at the translated offset.
C4_FreeTextOffersNoCompletions ==
  (resp.op = "getCompletions" /\ Analyzable(resp)) =>
    IF FreeText(resp)
    THEN resp.result = Undefined /\ resp.queries = <<>>
    ELSE resp.queries = << Query("getCompletionsAtPosition", resp.fileName,
                                 [offset |-> resp.offset]) >>

\* a request in the embedding itself: the Analyzer is not asked
C4_Witness ==
  /\ resp.op = "getCompletions"
  /\ Analyzable(resp)
  /\ hasTransform(resp.fileName)
  /\ owner(resp.fileName, resp.offset).tag = "TemplateEmbedding"
  /\ resp.queries = <<>>
  /\ resp.result = Undefined

----------------------------------------------------------------------------
(* C5: synthetic-only spans are not shown *)

KeptSpans(r) == {i \in 1..Len(r.answer) : ~SyntheticOnly(r.answer[i])}

\* C5: getDefinition and getReferences exclude a span exactly when its
\* original range is zero-length while its synthetic span has length >= 1;
\* every other span yields one Location, in the Analyzer's order, at the URI
\* of the original file it maps to.
C5_SyntheticOnlySpansExcluded ==
  (resp.op \in {"getDefinition", "getReferences"} /\ Analyzable(resp)) =>
    /\ Len(resp.result) = Cardinality(KeptSpans(resp))
    /\ \A j \in 1..Len(resp.result) :
         resp.result[j].uri = OriginalUri(resp.answer[Nth(KeptSpans(resp), j)])

\* a zero-length span that stays, after a synthetic-only span that goes
C5_Witness ==
  /\ resp.op = "getReferences"
  /\ Analyzable(resp)
  /\ Len(resp.answer) = 2
  /\ SyntheticOnly(resp.answer[1])
  /\ resp.answer[2].textSpan.length = 0
  /\ OriginalUri(resp.answer[2]) = filePathToUri(TemplateA)
  /\ Len(resp.result) = 1

----------------------------------------------------------------------------
(* C6: rename edits and document versions *)

\* C6: every per-file edit group of the workspace edit that getEditsForRename
\* answers with carries the current version of its target file.
C6_RenameGroupsCarryCurrentVersion ==
  (resp.op = "getEditsForRename" /\ "changes" \in resp.result.fields
     /\ DOMAIN resp.result.changes # {}) =>
    /\ "documentChanges" \in resp.result.fields
    /\ \A i \in 1..Len(resp.result.documentChanges) :
         resp.result.documentChanges[i].textDocument.version =
           getDocumentVersion(uriToFilePath(resp.result.documentChanges[i].textDocument.uri))

----------------------------------------------------------------------------
(* C7: rename edits are grouped by original file *)

Uris == {filePathToUri(p) : p \in Paths}

RenamedIn(r, u) ==
  {i \in 1..Len(r.answer.list) :
     ~EmptyOriginal(r.answer.list[i]) /\ OriginalUri(r.answer.list[i]) = u}

\* C7: each rename location with a non-empty original range contributes one
\* edit, carrying newText, to the group of the URI of the original file it
\* maps to; a location with a zero-length original range contributes none;
\* there is no other group and no other edit.
C7_RenameEditsGroupedByOriginalFile ==
  (resp.op = "getEditsForRename" /\ "changes" \in resp.result.fields) =>
    /\ DOMAIN resp.result.changes = {u \in Uris : RenamedIn(resp, u) # {}}
    /\ \A u \in DOMAIN resp.result.changes :
         /\ Len(resp.result.changes[u]) = Cardinality(RenamedIn(resp, u))
         /\ \A j \in 1..Len(resp.result.changes[u]) :
              LET o == spanToOriginalRange(resp.answer.list[Nth(RenamedIn(resp, u), j)]) IN
                /\ resp.result.changes[u][j].newText = resp.newText
                /\ resp.result.changes[u][j].range =
                     Range(getDocumentContents(uriToFilePath(u)),
                           o.originalStart, o.originalEnd)

\* a symbol used in both halves of the pair: two groups, one per original file
C7_Witness ==
  /\ resp.op = "getEditsForRename"
  /\ "changes" \in resp.result.fields
  /\ DOMAIN resp.result.changes = {filePathToUri(ScriptA), filePathToUri(TemplateA)}

----------------------------------------------------------------------------
(* C8: the error codes handed to the Analyzer *)

FromGlint(d) == d.source # Undefined /\ startsWith(d.source.s, Glint)

IsNumeral(s) == s # <<>> /\ \A i \in 1..Len(s) : s[i] \in Digits

NumericCodeable(d) ==
  /\ d.code # Undefined
  /\ (d.code.kind = "string" => IsNumeral(d.code.s))

NumericCode(d) == IF d.code.kind = "string" THEN parseInt(d.code.s) ELSE d.code

CodedByGlint(r) ==
  {i \in 1..Len(r.diagnostics) :
     FromGlint(r.diagnostics[i]) /\ NumericCodeable(r.diagnostics[i])}

\* C8: the error codes passed to getCodeFixesAtPosition are exactly the codes
\* of the given diagnostics whose source starts with 'glint' and whose code
\* is a number or a string that parses as one; every one is a valid number.
C8_ErrorCodesAreTheNumericGlintCodes ==
  (resp.op = "getCodeActions" /\ resp.queries # <<>>) =>
    LET codes == resp.queries[1].args.errorCodes IN
      /\ \A j \in 1..Len(codes) : codes[j].kind = "number"
      /\ Len(codes) = Cardinality(CodedByGlint(resp))
      /\ \A j \in 1..Len(codes) :
           codes[j] = NumericCode(resp.diagnostics[Nth(CodedByGlint(resp), j)])

----------------------------------------------------------------------------
(* C9, C10: the suppress-diagnostic fix is rewritten for markup *)

\* the text edits of the Analyzer's answer: fix, file change, text change
EditIndices(r) ==
  {<<i, c, j>> \in (1..Len(r.answer)) \X (1..2) \X (1..(MaxSpans + 1)) :
     /\ c <= Len(r.answer[i].changes)
     /\ j <= Len(r.answer[i].changes[c].textChanges)}

AnalyzerEdit(r, x) == r.answer[x[1]].changes[x[2]].textChanges[x[3]]
ProducedEdit(r, x) == r.actions[x[1]].edit.documentChanges[x[2]].edits[x[3]]

EditOriginalRange(r, x) ==
  getOriginalRange(r.answer[x[1]].changes[x[2]].fileName,
                   AnalyzerEdit(r, x).span.start,
                   AnalyzerEdit(r, x).span.start + AnalyzerEdit(r, x).span.length)

Rewritten(r, x) ==
  /\ r.answer[x[1]].fixName = "disableJsDiagnostics"
  /\ \/ isTemplate(EditOriginalRange(r, x).originalFileName)
     \/ EditOriginalRange(r, x).mapping # None

InsertionPoint(r, x) ==
  offsetToPosition(getDocumentContents(EditOriginalRange(r, x).originalFileName),
                   EditOriginalRange(r, x).originalStart)

\* C9: a text edit of a disableJsDiagnostics fix whose translated target is a
\* template file, or whose translated range has a mapped segment, becomes a
\* zero-width insertion at the translated start whose text begins with the
\* markup comment and holds none of the Analyzer's text; any other text edit
\* replaces the translated range with the Analyzer's newText.
C9_SuppressionRewrittenForMarkup ==
  (resp.op = "getCodeActions" /\ resp.queries # <<>>) =>
    \A x \in EditIndices(resp) :
      IF Rewritten(resp, x)
      THEN /\ ProducedEdit(resp, x).range.start = InsertionPoint(resp, x)
           /\ ProducedEdit(resp, x).range.end = InsertionPoint(resp, x)
           /\ ProducedEdit(resp, x).newText[1] = GlintIgnore
           /\ \A l \in 1..Len(ProducedEdit(resp, x).newText) :
                ProducedEdit(resp, x).newText[l] # TsIgnore[1]
      ELSE /\ ProducedEdit(resp, x).newText = AnalyzerEdit(resp, x).newText
           /\ ProducedEdit(resp, x).range =
                Range(getDocumentContents(EditOriginalRange(resp, x).originalFileName),
                      EditOriginalRange(resp, x).originalStart,
                      EditOriginalRange(resp, x).originalEnd)

\* a suppression requested from the markup half, over its expression, is
\* answered with an insertion of the markup comment
C9_Witness ==
  /\ resp.op = "getCodeActions"
  /\ resp.uri = filePathToUri(TemplateA)
  /\ Len(resp.result) = 1
  /\ <<1, 1, 1>> \in EditIndices(resp)
  /\ Rewritten(resp, <<1, 1, 1>>)
  /\ EditOriginalRange(resp, <<1, 1, 1>>).mapping = [sourceNode |-> [type |-> "Identifier"]]
  /\ resp.result[1].edit.documentChanges[1].edits[1].newText[1] = GlintIgnore

\* C10: in a rewritten suppress-diagnostic edit the text after the comment
\* line is the leading run of spaces and tabs of the line, in the original
\* file the insertion point maps to, that holds the insertion point.
C10_IndentationOfOriginalLine ==
  (resp.op = "getCodeActions" /\ resp.queries # <<>>) =>
    \A x \in EditIndices(resp) :
      Rewritten(resp, x) =>
        /\ Len(ProducedEdit(resp, x).newText) = 2
        /\ ProducedEdit(resp, x).newText[2] =
             leadingRun(
               getDocumentContents(EditOriginalRange(resp, x).originalFileName)
                 [InsertionPoint(resp, x).line + 1],
               {" ", "\t"})

----------------------------------------------------------------------------
(* C11: the document a quick fix's edits are addressed to *)

\* the file changes of the Analyzer's answer: fix, file change
ChangeIndices(r) ==
  {<<i, c>> \in (1..Len(r.answer)) \X (1..2) : c <= Len(r.answer[i].changes)}

\* the original files the text edits of one file change land in
LandingFiles(r, y) ==
  {EditOriginalRange(r, x).originalFileName :
     x \in {z \in EditIndices(r) : z[1] = y[1] /\ z[2] = y[2]}}

AddressedUri(r, y) == r.actions[y[1]].edit.documentChanges[y[2]].textDocument.uri

\* C11: for a quick-fix request from a markup file with a companion script
\* file, a document edit whose text edits all land in the companion is
\* addressed to the companion's URI and one whose text edits all land in the
\* markup file is addressed to the markup file's URI; for a request from a
\* script file or a file without companion every document edit is addressed
\* to the request URI.
C11_EditsAddressedWhereTheyLand ==
  (resp.op = "getCodeActions" /\ resp.queries # <<>>) =>
    LET filePath == uriToFilePath(resp.uri)
        companion == getCompanionDocumentPath(filePath)
    IN  \A y \in ChangeIndices(resp) :
          IF isTemplate(filePath) /\ companion # None
          THEN /\ LandingFiles(resp, y) = {companion} =>
                    AddressedUri(resp, y) = filePathToUri(companion)
               /\ LandingFiles(resp, y) = {filePath} =>
                    AddressedUri(resp, y) = resp.uri
          ELSE AddressedUri(resp, y) = resp.uri

----------------------------------------------------------------------------
(* C12: open files are in the Analyzer's file set *)

\* C12: every file that is open (opened and not closed since) has the script
\* path of its module, when that path is script-kind, among the file names
\* getScriptFileNames reports to the Analyzer.
C12_OpenFilesAreReported ==
  \A p \in EditPaths :
    (documents[p].open /\ isScript(getScriptPathForTS(p))) =>
      getScriptPathForTS(p) \in getScriptFileNames

----------------------------------------------------------------------------
(* C13: document events read no synthetic text *)

EventOps ==
  {"openFile", "updateFile", "closeFile",
   "watchedFileWasAdded", "watchedFileDidChange", "watchedFileWasRemoved"}

\* C13: a step that handles a document event (openFile, updateFile,
\* closeFile, watchedFileWasAdded, watchedFileDidChange,
\* watchedFileWasRemoved) reads no synthetic text and queries the Analyzer
\* for nothing; synthetic text is read only by a request or by the
\* Analyzer's host read.
C13_EventsReadNoSynthesis ==
  /\ ev.op \in EventOps => (synthesisReads = {} /\ resp = NoResp)
  /\ synthesisReads # {} => ev = NoEvent

\* after a burst of events an open file, whose module is in the Analyzer's
\* file set, was edited and the edit read nothing
C13_Witness ==
  /\ ev.op = "updateFile"
  /\ documents[ev.path].version = MaxVersion
  /\ getScriptPathForTS(ev.path) \in getScriptFileNames
  /\ synthesisReads = {}

----------------------------------------------------------------------------
(* C14: the version stamped on a document edit *)

\* the document edits of the returned code actions: action, document change
ReturnedEdits(r) ==
  {<<i, c>> \in (1..Len(r.result)) \X (1..2) :
     c <= Len(r.result[i].edit.documentChanges)}

ReturnedDocument(r, y) == r.result[y[1]].edit.documentChanges[y[2]].textDocument

\* C14: in every code action getCodeActions returns, the version stamped on
\* a document edit is the current version of the document the edit is
\* addressed to; an edit re-targeted to the companion script carries the
\* companion's version.
C14_VersionOfAddressedDocument ==
  (resp.op = "getCodeActions" /\ resp.queries # <<>>) =>
    \A y \in ReturnedEdits(resp) :
      ReturnedDocument(resp, y).version =
        getDocumentVersion(uriToFilePath(ReturnedDocument(resp, y).uri))

----------------------------------------------------------------------------
(* C15: code actions without text edits are dropped *)

\* the fixes of the Analyzer's answer all of whose file changes have a text change
FixesWithEdits(r) ==
  {i \in 1..Len(r.answer) :
     \A c \in 1..Len(r.answer[i].changes) : Len(r.answer[i].changes[c].textChanges) >= 1}

\* C15: getCodeActions returns, in the Analyzer's order, the actions of
\* exactly those fixes none of whose file changes has an empty text-change
\* list, so every document change returned carries at least one text edit;
\* for an actionKind other than quickfix the result is empty.
C15_OnlyActionsWithEditsReturned ==
  resp.op = "getCodeActions" =>
    IF resp.actionKind = "quickfix"
    THEN /\ Len(resp.result) = Cardinality(FixesWithEdits(resp))
         /\ \A j \in 1..Len(resp.result) :
              resp.result[j] = resp.actions[Nth(FixesWithEdits(resp), j)]
         /\ \A y \in ReturnedEdits(resp) :
              Len(resp.result[y[1]].edit.documentChanges[y[2]].edits) >= 1
    ELSE resp.result = <<>>

\* of two fixes answered, the first has a file change without text changes
\* and is dropped, the second is returned
C15_Witness ==
  /\ resp.op = "getCodeActions"
  /\ resp.actionKind = "quickfix"
  /\ Len(resp.answer) = 2
  /\ FixesWithEdits(resp) = {2}
  /\ Len(resp.result) = 1
  /\ resp.result[1].title = SimpleFix.description

====
